---- MODULE Spec2Model ----
(***************************************************************************)
(* Reflector (src/js/Reflector.js): a planar mirror for a three.js scene.  *)
(* The model follows the constructor, the onBeforeRender hook and          *)
(* dispose(), together with the part of the host renderer the hook talks   *)
(* to: the active render target, xr.enabled, shadowMap.autoUpdate, the     *)
(* blending state and render(scene, camera), which calls the hook of       *)
(* every visible reflector before it draws.                                *)
(*                                                                         *)
(* Numbers are exact rationals <<n, d>> extended with the IEEE specials    *)
(* the hook can produce: <<1,0>> is +Infinity, <<-1,0>> is -Infinity and   *)
(* <<0,0>> is NaN.  Floating-point rounding is not modelled.               *)
(***************************************************************************)
EXTENDS Integers, Sequences, FiniteSets

-----------------------------------------------------------------------------
(* Bounds of the model *)

\* deepest nesting of hook invocations the call stack holds
MaxDepth == 3
\* camera coordinates range over -MaxCoord..MaxCoord
MaxCoord == 1
\* dispose() calls followed in the lifecycle specification
MaxDispose == 2

-----------------------------------------------------------------------------
(* JavaScript numbers *)

Abs(n) == IF n < 0 THEN -n ELSE n

Sgn(n) == IF n > 0 THEN 1 ELSE IF n < 0 THEN -1 ELSE 0

RECURSIVE Gcd(_, _)
Gcd(a, b) == IF b = 0 THEN a ELSE Gcd(b, a % b)

\* the number n/d in lowest terms; d = 0 gives an infinity or NaN
Num(n, d) ==
  IF d = 0 THEN <<Sgn(n), 0>>
  ELSE LET g == Gcd(Abs(n), Abs(d))
       IN  <<(Sgn(d) * n) \div g, Abs(d) \div g>>

Whole(n) == <<n, 1>>
NaN == <<0, 0>>
Zero == <<0, 1>>
One == <<1, 1>>
Half == <<1, 2>>

IsNaN(a) == a = NaN

\* a + b; Infinity + Infinity keeps its sign, Infinity - Infinity is NaN
NAdd(a, b) ==
  IF a[2] = 0 /\ b[2] = 0
  THEN (IF a = b THEN a ELSE NaN)
  ELSE Num(a[1] * b[2] + b[1] * a[2], a[2] * b[2])

NNeg(a) == <<-a[1], a[2]>>
NSub(a, b) == NAdd(a, NNeg(b))
\* a * b; 0 * Infinity is NaN
NMul(a, b) == Num(a[1] * b[1], a[2] * b[2])
\* a / b; x / 0 is an infinity for x # 0 and NaN for x = 0 (the sign of a
\* zero divisor is not tracked)
NDiv(a, b) ==
  IF b[1] = 0 /\ b[2] # 0 THEN <<Sgn(a[1]), 0>>
  ELSE Num(a[1] * b[2] * Sgn(b[1]), a[2] * Abs(b[1]))
\* a > 0 as JavaScript compares: false for NaN
NGt0(a) == a[1] > 0
NLt0(a) == a[1] < 0
\* Math.sign
NSign(a) == IF IsNaN(a) THEN NaN ELSE Whole(Sgn(a[1]))

-----------------------------------------------------------------------------
(* three.js vectors (tuples of numbers) and 4x4 matrices (16 numbers,      *)
(* column-major, El(m, k) is m.elements[k])                                *)

El(m, k) == m[k + 1]

V3(x, y, z) == <<Whole(x), Whole(y), Whole(z)>>

Dot3(a, b) == NAdd(NAdd(NMul(a[1], b[1]), NMul(a[2], b[2])), NMul(a[3], b[3]))
Dot4(a, b) == NAdd(NAdd(NAdd(NMul(a[1], b[1]), NMul(a[2], b[2])), NMul(a[3], b[3])), NMul(a[4], b[4]))
AddV(a, b) == << NAdd(a[1], b[1]), NAdd(a[2], b[2]), NAdd(a[3], b[3]) >>
SubVectors(a, b) == << NSub(a[1], b[1]), NSub(a[2], b[2]), NSub(a[3], b[3]) >>
MultiplyScalar(v, s) == << NMul(v[1], s), NMul(v[2], s), NMul(v[3], s) >>
MultiplyScalar4(v, s) == << NMul(v[1], s), NMul(v[2], s), NMul(v[3], s), NMul(v[4], s) >>
Negate(v) == << NNeg(v[1]), NNeg(v[2]), NNeg(v[3]) >>
Cross(a, b) ==
  << NSub(NMul(a[2], b[3]), NMul(a[3], b[2])),
     NSub(NMul(a[3], b[1]), NMul(a[1], b[3])),
     NSub(NMul(a[1], b[2]), NMul(a[2], b[1])) >>

\* Vector3.reflect: v - 2 (v . n) n, n a unit vector
Reflect(v, n) == SubVectors(v, MultiplyScalar(n, NMul(Whole(2), Dot3(v, n))))

\* Vector3.setFromMatrixPosition
SetFromMatrixPosition(m) == <<El(m, 12), El(m, 13), El(m, 14)>>

\* Matrix4.extractRotation, for a world matrix without scale (every world
\* matrix of the model is a rotation and a translation)
ExtractRotation(m) ==
  << El(m, 0), El(m, 1), El(m, 2), Zero,
     El(m, 4), El(m, 5), El(m, 6), Zero,
     El(m, 8), El(m, 9), El(m, 10), Zero,
     Zero, Zero, Zero, One >>

\* Vector3.applyMatrix4, with its perspective divide
ApplyMatrix4(v, m) ==
  LET w == NDiv(One, NAdd(NAdd(NAdd(NMul(El(m, 3), v[1]), NMul(El(m, 7), v[2])),
                               NMul(El(m, 11), v[3])), El(m, 15)))
      row(r) == NAdd(NAdd(NAdd(NMul(El(m, r), v[1]), NMul(El(m, r + 4), v[2])),
                          NMul(El(m, r + 8), v[3])), El(m, r + 12))
  IN  << NMul(row(0), w), NMul(row(1), w), NMul(row(2), w) >>

\* row r of a times column c of b
MultiplyEntry(a, b, r, c) ==
  NAdd(NAdd(NAdd(NMul(El(a, r), El(b, 4 * c)),
                 NMul(El(a, r + 4), El(b, 4 * c + 1))),
            NMul(El(a, r + 8), El(b, 4 * c + 2))),
       NMul(El(a, r + 12), El(b, 4 * c + 3)))

\* Matrix4.multiply: a x b
Multiply(a, b) ==
  << MultiplyEntry(a, b, 0, 0), MultiplyEntry(a, b, 1, 0), MultiplyEntry(a, b, 2, 0), MultiplyEntry(a, b, 3, 0),
     MultiplyEntry(a, b, 0, 1), MultiplyEntry(a, b, 1, 1), MultiplyEntry(a, b, 2, 1), MultiplyEntry(a, b, 3, 1),
     MultiplyEntry(a, b, 0, 2), MultiplyEntry(a, b, 1, 2), MultiplyEntry(a, b, 2, 2), MultiplyEntry(a, b, 3, 2),
     MultiplyEntry(a, b, 0, 3), MultiplyEntry(a, b, 1, 3), MultiplyEntry(a, b, 2, 3), MultiplyEntry(a, b, 3, 3) >>

\* Matrix4.compose with unit scale: rotation columns x, y, z and a position
Compose(x, y, z, p) ==
  << x[1], x[2], x[3], Zero,
     y[1], y[2], y[3], Zero,
     z[1], z[2], z[3], Zero,
     p[1], p[2], p[3], One >>

\* Matrix4.invert of a rotation-and-translation matrix: transposed
\* rotation, position taken back through it
Invert(m) ==
  LET x == <<El(m, 0), El(m, 1), El(m, 2)>>
      y == <<El(m, 4), El(m, 5), El(m, 6)>>
      z == <<El(m, 8), El(m, 9), El(m, 10)>>
      p == SetFromMatrixPosition(m)
  IN  << x[1], y[1], z[1], Zero,
         x[2], y[2], z[2], Zero,
         x[3], y[3], z[3], Zero,
         NNeg(Dot3(x, p)), NNeg(Dot3(y, p)), NNeg(Dot3(z, p)), One >>

\* Matrix4.lookAt (through Object3D.lookAt of a camera): the rotation whose
\* z axis points from the target to the eye.  The axes of the model are
\* unit length, so the normalisations leave them as they are.
LookAtColumns(eye, tgt, up) ==
  LET z == SubVectors(eye, tgt)
      x == Cross(up, z)
      y == Cross(z, x)
  IN  <<x, y, z>>

\* Plane.setFromNormalAndCoplanarPoint
SetFromNormalAndCoplanarPoint(n, point) ==
  [normal |-> n, constant |-> NNeg(Dot3(point, n))]

\* Plane.applyMatrix4, for a matrix without scale (its normal matrix is
\* its rotation)
PlaneApplyMatrix4(plane, m) ==
  LET referencePoint == ApplyMatrix4(MultiplyScalar(plane.normal, NNeg(plane.constant)), m)
      n == ApplyMatrix4(plane.normal, ExtractRotation(m))
  IN  [normal |-> n, constant |-> NNeg(Dot3(referencePoint, n))]

-----------------------------------------------------------------------------
(* What the host hands in: constructor options, the reflector's world      *)
(* matrix, the cameras it renders with and the renderer state it has set   *)

\* options objects; a field that is left out is undefined
OptionChoices ==
  { [name |-> "defaults"],
    [name |-> "blend", opacity |-> Half, clipBias |-> Num(1, 10)],
    [name |-> "zero", opacity |-> Zero, transparent |-> FALSE,
     shader |-> [uniforms |-> [opacity |-> One]]] }

Has(o, f) == f \in DOMAIN o

\* Reflector.ReflectorShader: its opacity uniform
ReflectorShader == [uniforms |-> [opacity |-> Num(3, 10)]]

\* rotation by -90 degrees about x: local +z becomes world +y, local -z
\* (a camera's forward) becomes world -y
PitchDown == << V3(1, 0, 0), V3(0, 0, -1), V3(0, 1, 0) >>
Upright == << V3(1, 0, 0), V3(0, 1, 0), V3(0, 0, 1) >>

\* scope.matrixWorld: a floor through the origin facing +y, or a wall
\* through the origin facing +z
ScopeChoices ==
  { Compose(PitchDown[1], PitchDown[2], PitchDown[3], V3(0, 0, 0)),
    Compose(Upright[1], Upright[2], Upright[3], V3(0, 0, 0)) }

\* Matrix4.makePerspective, the projection matrix of a host camera
MakePerspective(left, right, top, bottom, near, far) ==
  LET x == Num(2 * near, right - left)
      y == Num(2 * near, top - bottom)
      a == Num(right + left, right - left)
      b == Num(top + bottom, top - bottom)
      c == Num(-(far + near), far - near)
      d == Num(-2 * far * near, far - near)
  IN  << x, Zero, Zero, Zero,
         Zero, y, Zero, Zero,
         a, b, c, Whole(-1),
         Zero, Zero, d, Zero >>

\* a symmetric frustum, and an off-centre one
Symmetric == [projectionMatrix |-> MakePerspective(-1, 1, 1, -1, 1, 9), far |-> Whole(9)]
OffCentre == [projectionMatrix |-> MakePerspective(-1, 3, 2, -1, 1, 19), far |-> Whole(19)]
ProjectionChoices == { Symmetric, OffCentre }

CameraPositions == { V3(0, y, 1) : y \in -MaxCoord..MaxCoord }

\* the host's cameras: one looks along -z through the symmetric frustum,
\* one looks down through the off-centre one
CameraKinds ==
  { [rotation |-> Upright, projection |-> Symmetric],
    [rotation |-> PitchDown, projection |-> OffCentre] }

\* the cameras the host renders with: camera.matrixWorld,
\* camera.projectionMatrix and camera.far
CameraChoices ==
  { [matrixWorld |-> Compose(k.rotation[1], k.rotation[2], k.rotation[3], p),
     projectionMatrix |-> k.projection.projectionMatrix,
     far |-> k.projection.far] :
      k \in CameraKinds, p \in CameraPositions }

\* the renderer as the host has left it when it calls render: its active
\* render target (null or one of the host's own), xr.enabled,
\* shadowMap.autoUpdate and the blending state (1 is NormalBlending)
RendererChoices ==
  { [renderTarget |-> t, xrEnabled |-> x, shadowAutoUpdate |-> s, blending |-> 1] :
      t \in {"null", "hostTarget"}, x \in BOOLEAN, s \in BOOLEAN }

-----------------------------------------------------------------------------
VARIABLES
  options,                \* the options object the constructor was given
  clipBias,               \* constructor: options.clipBias || 0
  material,               \* this.material: uniforms.opacity, opacity, transparent
  matrixWorld,            \* scope.matrixWorld
  visible,                \* scope.visible
  cameras,                \* "real": the host's camera; "virtual": this.camera
  reflectorWorldPosition, \* closure scratch of the hook
  cameraWorldPosition,
  normal,
  view,
  target,
  clipPlane,
  textureMatrix,          \* the matrix behind material.uniforms.textureMatrix
  textureSource,          \* the operands textureMatrix was last multiplied from
  renderer,               \* the host renderer's state
  stack,                  \* call stack: render calls and hook invocations
  buffer,                 \* what the offscreen render target holds
  crashed,                \* the call stack overflowed
  disposals               \* dispose() calls received by renderTarget and material

vars == << options, clipBias, material, matrixWorld, visible, cameras,
           reflectorWorldPosition, cameraWorldPosition, normal, view, target,
           clipPlane, textureMatrix, textureSource, renderer, stack, buffer,
           crashed, disposals >>

closure == << reflectorWorldPosition, cameraWorldPosition, normal, view, target,
              clipPlane, textureMatrix, textureSource >>
config == << options, clipBias, material, matrixWorld >>

Identity == Compose(Upright[1], Upright[2], Upright[3], V3(0, 0, 0))

\* new PerspectiveCamera(): fov 50, aspect 1, near 0.1, far 2000; its
\* projection matrix with 1 / tan(25 degrees) taken as 2
NewPerspectiveCamera ==
  [ position |-> V3(0, 0, 0), up |-> V3(0, 1, 0),
    matrixWorld |-> Identity, matrixWorldInverse |-> Identity,
    projectionMatrix |->
      << Whole(2), Zero, Zero, Zero,
         Zero, Whole(2), Zero, Zero,
         Zero, Zero, Num(-20001, 19999), Whole(-1),
         Zero, Zero, Num(-4000, 19999), Zero >>,
    far |-> Whole(2000) ]

\* options.opacity || 1.0: undefined and 0 both give the default
OptionOpacity(o) ==
  IF Has(o, "opacity") /\ o.opacity # Zero THEN o.opacity ELSE One

\* options.clipBias || 0
OptionClipBias(o) == IF Has(o, "clipBias") THEN o.clipBias ELSE Zero

\* options.transparent !== undefined ? options.transparent : true
OptionTransparent(o) == IF Has(o, "transparent") THEN o.transparent ELSE TRUE

\* options.shader || Reflector.ReflectorShader
OptionShader(o) == IF Has(o, "shader") THEN o.shader ELSE ReflectorShader

\* new ShaderMaterial: the uniforms are a clone of the shader's, the
\* opacity goes to the material's own opacity property
NewMaterial(o) ==
  [ uniforms |-> OptionShader(o).uniforms,
    opacity |-> OptionOpacity(o),
    transparent |-> OptionTransparent(o) ]

NoFrame == << >>
\* a render target nothing has been drawn into
NoDraw == << >>

\* the state the constructor leaves
Construct(o, mw, cam0, r0) ==
  /\ options = o
  /\ clipBias = OptionClipBias(o)
  /\ material = NewMaterial(o)
  /\ matrixWorld = mw
  /\ visible = TRUE
  /\ cameras = [real |-> cam0, virtual |-> NewPerspectiveCamera]
  /\ reflectorWorldPosition = V3(0, 0, 0)
  /\ cameraWorldPosition = V3(0, 0, 0)
  /\ normal = V3(0, 0, 0)
  /\ view = V3(0, 0, 0)
  /\ target = V3(0, 0, 0)
  /\ clipPlane = << Zero, Zero, Zero, One >>
  /\ textureMatrix = Identity
  /\ textureSource = [projectionMatrix |-> Identity, matrixWorldInverse |-> Identity]
  /\ renderer = r0
  /\ stack = NoFrame
  /\ buffer = NoDraw
  /\ crashed = FALSE
  /\ disposals = [renderTarget |-> 0, material |-> 0]

-----------------------------------------------------------------------------
(* The call stack *)

Top == stack[Len(stack)]
Pop == SubSeq(stack, 1, Len(stack) - 1)
ReplaceTop(f) == [stack EXCEPT ![Len(stack)] = f]

\* renderer.render(scene, camera) in progress; pass says who called it:
\* the host, the hook for its offscreen render, or the hook for its render
\* with the camera it was given
RenderFrame(cam, pass) == [kind |-> "render", cam |-> cam, pass |-> pass, pc |-> "hooks"]

\* scope.onBeforeRender(renderer, scene, camera) in progress; entry is the
\* renderer state the invocation found
HookFrame(cam) == [kind |-> "hook", cam |-> cam, pc |-> "entry", entry |-> renderer]

HookDepth == Cardinality({ i \in DOMAIN stack : stack[i].kind = "hook" })

Running(kind, pc) ==
  /\ ~crashed
  /\ stack # NoFrame
  /\ Top.kind = kind
  /\ Top.pc = pc

-----------------------------------------------------------------------------
(* The host renderer *)

\* the host sets its renderer up and calls renderer.render(scene, camera)
HostRender(cam, r) ==
  /\ ~crashed
  /\ stack = NoFrame
  /\ cameras' = [cameras EXCEPT !.real = cam]
  /\ renderer' = r
  /\ stack' = << RenderFrame("real", "host") >>
  /\ UNCHANGED << config, visible, closure, buffer, crashed, disposals >>

\* render calls onBeforeRender of the reflector when it is visible
RenderInvokeHook ==
  /\ Running("render", "hooks")
  /\ visible
  /\ HookDepth < MaxDepth
  /\ stack' = Append(ReplaceTop([Top EXCEPT !.pc = "draw"]), HookFrame(Top.cam))
  /\ UNCHANGED << config, visible, cameras, closure, renderer, buffer, crashed, disposals >>

\* the same call with the call stack full: RangeError, nothing returns
StackOverflow ==
  /\ Running("render", "hooks")
  /\ visible
  /\ HookDepth >= MaxDepth
  /\ crashed' = TRUE
  /\ UNCHANGED << config, visible, cameras, closure, renderer, stack, buffer, disposals >>

\* a hidden reflector is left out of the traversal
RenderHidden ==
  /\ Running("render", "hooks")
  /\ ~visible
  /\ stack' = ReplaceTop([Top EXCEPT !.pc = "draw"])
  /\ UNCHANGED << config, visible, cameras, closure, renderer, buffer, crashed, disposals >>

\* what a draw with a camera leaves in the target
Drawn(cam) == << cam.matrixWorld, cam.projectionMatrix >>

\* render draws the scene into the active render target and returns
RenderDraw ==
  /\ Running("render", "draw")
  /\ buffer' = IF renderer.renderTarget = "renderTarget"
               THEN Drawn(cameras[Top.cam]) ELSE buffer
  /\ stack' = Pop
  /\ UNCHANGED << config, visible, cameras, closure, renderer, crashed, disposals >>

-----------------------------------------------------------------------------
(* onBeforeRender *)

Camera == cameras[Top.cam]

\* normal.set(0, 0, 1).applyMatrix4(rotation of scope.matrixWorld)
WorldNormal(mw) == ApplyMatrix4(V3(0, 0, 1), ExtractRotation(mw))

\* view.subVectors(reflectorWorldPosition, cameraWorldPosition)
ViewVector(mw, cam) ==
  SubVectors(SetFromMatrixPosition(mw), SetFromMatrixPosition(cam.matrixWorld))

\* the guard written with >= : a camera on the plane is turned away too
FacingAwayOrOnPlane(v, n) == ~NLt0(Dot3(v, n))

\* if ( view.dot( normal ) > 0 ) return
FacingAway(v, n) == NGt0(Dot3(v, n))

EntryScratch ==
  /\ reflectorWorldPosition' = SetFromMatrixPosition(matrixWorld)
  /\ cameraWorldPosition' = SetFromMatrixPosition(Camera.matrixWorld)
  /\ normal' = WorldNormal(matrixWorld)
  /\ view' = ViewVector(matrixWorld, Camera)

\* the reflector faces away from the camera: the hook returns at once
HookFacingAway ==
  /\ Running("hook", "entry")
  /\ EntryScratch
  /\ FacingAway(ViewVector(matrixWorld, Camera), WorldNormal(matrixWorld))
  /\ stack' = Pop
  /\ UNCHANGED << config, visible, cameras, target, clipPlane, textureMatrix,
                  textureSource, renderer, buffer, crashed, disposals >>

\* otherwise it goes on
HookFacing ==
  /\ Running("hook", "entry")
  /\ EntryScratch
  /\ ~FacingAway(ViewVector(matrixWorld, Camera), WorldNormal(matrixWorld))
  /\ stack' = ReplaceTop([Top EXCEPT !.pc = "mirror"])
  /\ UNCHANGED << config, visible, cameras, target, clipPlane, textureMatrix,
                  textureSource, renderer, buffer, crashed, disposals >>

\* the reflection without its negate()
MirrorPositionNotNegated(v, n, rwp) == AddV(Reflect(v, n), rwp)

\* view.reflect( normal ).negate(); view.add( reflectorWorldPosition )
MirrorPosition(v, n, rwp) == AddV(Negate(Reflect(v, n)), rwp)

\* the matrix textureMatrix.set is given
Bias ==
  << Half, Zero, Zero, Zero,
     Zero, Half, Zero, Zero,
     Zero, Zero, Half, Zero,
     Half, Half, Half, One >>

\* the product with the world matrix multiplied in before the view matrix
TextureMatrixWorldFirst(projection, inverse, world) ==
  Multiply(Multiply(Multiply(Bias, projection), world), inverse)

\* textureMatrix.set(...); multiply by projection, view and world matrix
TextureMatrix(projection, inverse, world) ==
  Multiply(Multiply(Multiply(Bias, projection), inverse), world)

\* the virtual camera is placed behind the mirror, takes the camera's far
\* and projection matrix, and textureMatrix is rebuilt
HookMirrorCamera ==
  /\ Running("hook", "mirror")
  /\ LET mirrored == MirrorPosition(view, normal, reflectorWorldPosition)
         rotationMatrix == ExtractRotation(Camera.matrixWorld)
         lookAtPosition == AddV(ApplyMatrix4(V3(0, 0, -1), rotationMatrix), cameraWorldPosition)
         tgt == MirrorPosition(SubVectors(reflectorWorldPosition, lookAtPosition),
                               normal, reflectorWorldPosition)
         up == Reflect(ApplyMatrix4(V3(0, 1, 0), rotationMatrix), normal)
         axes == LookAtColumns(mirrored, tgt, up)
         world == Compose(axes[1], axes[2], axes[3], mirrored)
         inverse == Invert(world)
         projection == Camera.projectionMatrix
     IN  /\ view' = mirrored
         /\ target' = tgt
         /\ cameras' = [cameras EXCEPT !.virtual =
                          [ position |-> mirrored, up |-> up,
                            matrixWorld |-> world, matrixWorldInverse |-> inverse,
                            projectionMatrix |-> projection,
                            far |-> Camera.far ]]
         /\ textureMatrix' = TextureMatrix(projection, inverse, matrixWorld)
         /\ textureSource' = [projectionMatrix |-> projection, matrixWorldInverse |-> inverse]
  /\ stack' = ReplaceTop([Top EXCEPT !.pc = "clip"])
  /\ UNCHANGED << config, visible, reflectorWorldPosition, cameraWorldPosition, normal,
                  clipPlane, renderer, buffer, crashed, disposals >>

\* the mirror plane in the virtual camera's view space, as clipPlane.set
\* receives it
ViewSpacePlane(n, rwp, inverse) ==
  LET reflectorPlane == PlaneApplyMatrix4(SetFromNormalAndCoplanarPoint(n, rwp), inverse)
  IN  << reflectorPlane.normal[1], reflectorPlane.normal[2], reflectorPlane.normal[3],
         reflectorPlane.constant >>

\* q, and clipPlane.multiplyScalar( 2.0 / clipPlane.dot( q ) )
ScaledPlane(plane, projectionMatrix) ==
  LET q == << NDiv(NAdd(NSign(plane[1]), El(projectionMatrix, 8)), El(projectionMatrix, 0)),
              NDiv(NAdd(NSign(plane[2]), El(projectionMatrix, 9)), El(projectionMatrix, 5)),
              Whole(-1),
              NDiv(NAdd(One, El(projectionMatrix, 10)), El(projectionMatrix, 14)) >>
  IN  MultiplyScalar4(plane, NDiv(Whole(2), Dot4(plane, q)))

\* the plane written to elements 8, 9, 10, 11: the third column
ReplaceThirdColumn(projectionMatrix, plane, bias) ==
  [projectionMatrix EXCEPT ![8 + 1] = plane[1],
                           ![9 + 1] = plane[2],
                           ![10 + 1] = NSub(NAdd(plane[3], One), bias),
                           ![11 + 1] = plane[4]]

\* the third row of the projection matrix is replaced
ReplaceThirdRow(projectionMatrix, plane, bias) ==
  [projectionMatrix EXCEPT ![2 + 1] = plane[1],
                           ![6 + 1] = plane[2],
                           ![10 + 1] = NSub(NAdd(plane[3], One), bias),
                           ![14 + 1] = plane[4]]

\* the near plane of the virtual camera is laid on the mirror
HookObliqueClip ==
  /\ Running("hook", "clip")
  /\ LET projectionMatrix == cameras.virtual.projectionMatrix
         scaled == ScaledPlane(ViewSpacePlane(normal, reflectorWorldPosition,
                                              cameras.virtual.matrixWorldInverse),
                               projectionMatrix)
     IN  /\ clipPlane' = scaled
         /\ cameras' = [cameras EXCEPT !.virtual.projectionMatrix =
                          ReplaceThirdRow(projectionMatrix, scaled, clipBias)]
  /\ stack' = ReplaceTop([Top EXCEPT !.pc = "offscreen"])
  /\ UNCHANGED << config, visible, reflectorWorldPosition, cameraWorldPosition, normal,
                  view, target, textureMatrix, textureSource, renderer, buffer,
                  crashed, disposals >>

\* renderer.setRenderTarget( renderTarget ); setBlending( 0 );
\* renderer.render( scene, virtualCamera )
HookOffscreenRender ==
  /\ Running("hook", "offscreen")
  /\ renderer' = [renderer EXCEPT !.renderTarget = "renderTarget", !.blending = 0]
  /\ stack' = Append(ReplaceTop([Top EXCEPT !.pc = "neutralize"]),
                     RenderFrame("virtual", "offscreen"))
  /\ UNCHANGED << config, visible, cameras, closure, buffer, crashed, disposals >>

\* renderer.setRenderTarget( null ); the locals are read from the renderer
\* as it is now; xr and shadow updates are switched off; the target read
\* back is set again
HookNeutralize ==
  /\ Running("hook", "neutralize")
  /\ LET unbound == [renderer EXCEPT !.renderTarget = "null"]
         currentRenderTarget == unbound.renderTarget
     IN  /\ stack' = ReplaceTop(
                [ kind |-> "hook", cam |-> Top.cam, pc |-> "restore", entry |-> Top.entry,
                  currentRenderTarget |-> currentRenderTarget,
                  currentXrEnabled |-> unbound.xrEnabled,
                  currentShadowAutoUpdate |-> unbound.shadowAutoUpdate ])
         /\ renderer' = [unbound EXCEPT !.xrEnabled = FALSE, !.shadowAutoUpdate = FALSE,
                                        !.renderTarget = currentRenderTarget]
  /\ UNCHANGED << config, visible, cameras, closure, buffer, crashed, disposals >>

\* xr and shadow updates are set back; scope.visible = false;
\* renderer.render( scene, camera )
HookRenderHidden ==
  /\ Running("hook", "restore")
  /\ renderer' = [renderer EXCEPT !.xrEnabled = Top.currentXrEnabled,
                                  !.shadowAutoUpdate = Top.currentShadowAutoUpdate]
  /\ visible' = FALSE
  /\ stack' = Append(ReplaceTop([Top EXCEPT !.pc = "unhide"]), RenderFrame(Top.cam, "main"))
  /\ UNCHANGED << config, cameras, closure, buffer, crashed, disposals >>

\* scope.visible = true; the hook returns
HookUnhide ==
  /\ Running("hook", "unhide")
  /\ visible' = TRUE
  /\ stack' = Pop
  /\ UNCHANGED << config, cameras, closure, renderer, buffer, crashed, disposals >>

-----------------------------------------------------------------------------
(* dispose *)

\* this.renderTarget.dispose(); this.material.dispose()
Dispose ==
  /\ ~crashed
  /\ stack = NoFrame
  /\ disposals.renderTarget < MaxDispose
  /\ disposals' = [renderTarget |-> disposals.renderTarget + 1,
                   material |-> disposals.material + 1]
  /\ UNCHANGED << config, visible, cameras, closure, renderer, stack, buffer, crashed >>

-----------------------------------------------------------------------------
(* Specifications *)

HostCamera0 ==
  [ matrixWorld |-> Compose(Upright[1], Upright[2], Upright[3], V3(0, 1, 1)),
    projectionMatrix |-> Symmetric.projectionMatrix,
    far |-> Symmetric.far ]

Renderer0 == [renderTarget |-> "null", xrEnabled |-> FALSE, shadowAutoUpdate |-> FALSE,
              blending |-> 1]

Init ==
  \E o \in OptionChoices, mw \in ScopeChoices : Construct(o, mw, HostCamera0, Renderer0)

Hook ==
  \/ HookFacingAway
  \/ HookFacing
  \/ HookMirrorCamera
  \/ HookObliqueClip
  \/ HookOffscreenRender
  \/ HookNeutralize
  \/ HookRenderHidden
  \/ HookUnhide

Render ==
  \/ RenderInvokeHook
  \/ StackOverflow
  \/ RenderHidden
  \/ RenderDraw

Next ==
  \/ \E cam \in CameraChoices, r \in RendererChoices : HostRender(cam, r)
  \/ Render
  \/ Hook

Spec == Init /\ [][Next]_vars

\* the life of one reflector: frames with a few cameras, and dispose()
LifecycleCameras ==
  { c \in CameraChoices :
      /\ c.projectionMatrix = HostCamera0.projectionMatrix
      /\ ExtractRotation(c.matrixWorld) = ExtractRotation(HostCamera0.matrixWorld) }

NextLifecycle ==
  \/ \E cam \in LifecycleCameras : HostRender(cam, Renderer0)
  \/ Render
  \/ Hook
  \/ Dispose

SpecLifecycle == Init /\ [][NextLifecycle]_vars

-----------------------------------------------------------------------------
(* Properties *)

\* some frame of the call stack is a render call of the given pass
InRender(pass) ==
  \E i \in DOMAIN stack : stack[i].kind = "render" /\ stack[i].pass = pass

\* the offscreen render has been issued and is the innermost call
OffscreenRenderOnTop ==
  /\ stack # NoFrame
  /\ Top.kind = "render"
  /\ Top.pass = "offscreen"

\* a hook invocation takes its step from entry: it returns or goes on
EntryStep == ~crashed /\ stack # NoFrame /\ Top.kind = "hook" /\ Top.pc = "entry"
Skipped == stack' = Pop /\ buffer' = buffer /\ renderer' = renderer
Proceeded == Len(stack') = Len(stack) /\ stack'[Len(stack')].pc = "mirror"

\* C1, as claimed: with d = dot(surface - camera, normal), the hook goes
\* on to the reflection when d < 0 and returns at once, with no render
\* call and the buffer untouched, when d >= 0.
C1_SkipWhenNotInFront ==
  [][EntryStep => IF NLt0(Dot3(view', normal')) THEN Proceeded ELSE Skipped]_vars

\* C1, amended: the hook returns at once, with no render call and the
\* buffer untouched, exactly when d > 0; for d <= 0, the camera on the
\* plane included, it goes on to the reflection.
C1_SkipWhenBehind ==
  [][EntryStep => IF NGt0(Dot3(view', normal')) THEN Skipped ELSE Proceeded]_vars

\* a frame was skipped for a camera behind the mirror while the buffer
\* held an earlier reflection
C1_Witness ==
  /\ stack # NoFrame
  /\ Top.kind = "render" /\ Top.pass = "host" /\ Top.pc = "draw"
  /\ NGt0(Dot3(view, normal))
  /\ buffer # NoDraw

HookReturns == ~crashed /\ stack # NoFrame /\ Top.kind = "hook" /\ stack' = Pop

\* C2: when the hook returns, on either exit path, the renderer's active
\* render target, xr.enabled and shadowMap.autoUpdate are what they were
\* when the hook was entered.
C2_HostStateRestored ==
  [][HookReturns =>
       /\ renderer'.renderTarget = Top.entry.renderTarget
       /\ renderer'.xrEnabled = Top.entry.xrEnabled
       /\ renderer'.shadowAutoUpdate = Top.entry.shadowAutoUpdate]_vars

ThirdRow == {2, 6, 10, 14}

\* C3: while the offscreen render is issued, the virtual camera's
\* projection matrix equals the real camera's outside the third row
\* (elements 2, 6, 10, 14), and the real camera's matrix is still one the
\* host made.
C3_OnlyThirdRowReplaced ==
  OffscreenRenderOnTop =>
    /\ \A k \in (0..15) \ ThirdRow :
         El(cameras.virtual.projectionMatrix, k) = El(cameras.real.projectionMatrix, k)
    /\ cameras.real.projectionMatrix \in { p.projectionMatrix : p \in ProjectionChoices }

\* an offscreen render with a clip bias, the third row rewritten
C3_Witness ==
  /\ OffscreenRenderOnTop
  /\ clipBias # Zero
  /\ El(cameras.virtual.projectionMatrix, 10) # El(cameras.real.projectionMatrix, 10)
  /\ El(cameras.virtual.projectionMatrix, 14) # El(cameras.real.projectionMatrix, 14)

\* C4: over any sequence of dispose() calls the offscreen buffer and the
\* shading program are each released at most once.
C4_ReleasedOnce == disposals.renderTarget <= 1 /\ disposals.material <= 1

\* the point c mirrored through the plane with point p and unit normal n
Mirrored(c, p, n) ==
  SubVectors(c, MultiplyScalar(n, NMul(Whole(2), Dot3(SubVectors(c, p), n))))

Derived(f) == f.kind = "hook" /\ f.pc \notin {"entry", "mirror"}

\* C5: in a frame that was not skipped, the virtual camera stands at the
\* mirror image of the camera's world position through the surface plane,
\* at the negated signed distance from it.
C5_VirtualCameraMirrored ==
  \A i \in DOMAIN stack :
    Derived(stack[i]) =>
      LET c == SetFromMatrixPosition(cameras[stack[i].cam].matrixWorld)
          p == SetFromMatrixPosition(matrixWorld)
          n == WorldNormal(matrixWorld)
      IN  /\ cameras.virtual.position = Mirrored(c, p, n)
          /\ Dot3(SubVectors(cameras.virtual.position, p), n)
               = NNeg(Dot3(SubVectors(c, p), n))

\* the floor y = 0 with the camera at (0, 1, 1): the virtual camera is at
\* (0, -1, 1)
C5_Witness ==
  /\ \E i \in DOMAIN stack : Derived(stack[i])
  /\ WorldNormal(matrixWorld) = V3(0, 1, 0)
  /\ SetFromMatrixPosition(cameras.real.matrixWorld) = V3(0, 1, 1)
  /\ cameras.virtual.position = V3(0, -1, 1)

\* C6: the opacity uniform of the material is the opacity of the options,
\* or 1.0 when the options give none.
C6_OpacityUniform ==
  material.uniforms.opacity = (IF Has(options, "opacity") THEN options.opacity ELSE One)

\* C7, as claimed: the projection and view matrices textureMatrix was
\* multiplied from are the ones the virtual camera holds while the
\* offscreen render is issued.
C7_TextureFromRenderState ==
  OffscreenRenderOnTop =>
    /\ textureSource.projectionMatrix = cameras.virtual.projectionMatrix
    /\ textureSource.matrixWorldInverse = cameras.virtual.matrixWorldInverse

\* C7, amended: textureMatrix is multiplied from the view matrix the
\* offscreen render uses and from the projection matrix as it is before the
\* oblique clip adjustment, which differs from the one the render uses in
\* the third row (elements 2, 6, 10, 14) only.
C7_TextureFromUnclippedProjection ==
  OffscreenRenderOnTop =>
    /\ \A k \in (0..15) \ ThirdRow :
         El(textureSource.projectionMatrix, k) = El(cameras.virtual.projectionMatrix, k)
    /\ textureSource.matrixWorldInverse = cameras.virtual.matrixWorldInverse
    /\ textureMatrix =
         Multiply(Multiply(Multiply(Bias, textureSource.projectionMatrix),
                           textureSource.matrixWorldInverse), matrixWorld)

\* an offscreen render whose projection matrix is no longer the one
\* textureMatrix was multiplied from
C7_Witness ==
  /\ OffscreenRenderOnTop
  /\ textureSource.projectionMatrix # cameras.virtual.projectionMatrix

\* C8: while the offscreen render runs, xr.enabled and
\* shadowMap.autoUpdate are false, and both have their entry values again
\* before the hook returns.
C8_NeutralDuringOffscreen ==
  /\ InRender("offscreen") => ~renderer.xrEnabled /\ ~renderer.shadowAutoUpdate
  /\ (stack # NoFrame /\ Top.kind = "hook" /\ Top.pc = "unhide") =>
       /\ renderer.xrEnabled = Top.entry.xrEnabled
       /\ renderer.shadowAutoUpdate = Top.entry.shadowAutoUpdate

\* C9: while the hook's offscreen render or its render with the real
\* camera runs, the surface is hidden; outside the hook it is visible.
C9_HiddenDuringRenders ==
  /\ (InRender("offscreen") \/ InRender("main")) => ~visible
  /\ stack = NoFrame => visible

\* C10: the nesting of hook invocations stays within the call stack, so
\* every invocation returns.
C10_HookReturns == ~crashed

====
